---- MODULE Spec2Model ----
(***************************************************************************)
(* CKR-Lang (src/src/ckr_lang/core.py): lexer, parser and evaluator.        *)
(*                                                                          *)
(* Text is modelled as a sequence of pieces.  A piece is a short string:    *)
(* one of the language's keywords (romanised, since a module is ASCII), a   *)
(* letter of a name, ",", ".", " ", "\n" or a quote.  Substring tests,      *)
(* replace, split, strip and join work on these sequences the way the       *)
(* Python string methods work on characters.                                *)
(*                                                                          *)
(*   naya = 나야            joryeo = 조려         jorinda = 조린다          *)
(*   jorigo = 조리고        ang = 앙              eul = 을                  *)
(*   jorimping = 조림핑     jorimingan = 조림인간 yokmangui = 욕망의        *)
(*   yeonswaejorimma = 연쇄조림마                                           *)
(*   budeulbudeul = 부들부들  ppyojokppyojok = 뾰족뾰족                     *)
(*   poksinpoksin = 폭신폭신                                                *)
(*   heukbaekyorisa2 = 흑백요리사2   hidden = 히든   baeksujeo = 백수저     *)
(*   choigangrok = 최강록    useung = 우승                                  *)
(***************************************************************************)
EXTENDS Integers, Sequences, FiniteSets, TLC

VARIABLES source, phase, core_code, groups, instructions, labels, pc, variables, out, err, prev,
          calls, first, big, executed

vars == <<source, phase, core_code, groups, instructions, labels, pc, variables, out, err, prev,
          calls, first, big, executed>>

----------------------------------------------------------------------------
(* Bounds of the model *)

\* the instruction under test has at most MaxSubj subjects
MaxSubj == 2
\* before it runs, a holds a value in -MaxInit..MaxInit and b one in 0..MaxInit
MaxInit == 1

----------------------------------------------------------------------------
(* Constants & configuration, core.py:5-12 *)

CONSTANTS_ ==
  (<<"budeulbudeul">> :> 0) @@ (<<"ppyojokppyojok">> :> -1) @@ (<<"poksinpoksin">> :> 1)

START_MARKER == <<"heukbaekyorisa2", " ", "hidden", "baeksujeo", " ", "choigangrok">>
END_MARKER == <<"baeksujeo", " ", "choigangrok", " ", "useung">>

SUFFIX_KEYWORDS ==
  {<<"joryeo">>, <<"jorinda">>, <<"jorigo">>, <<"ang">>, <<"eul">>, <<"jorimping">>}
PREFIX_KEYWORD == <<"naya">>
LABEL_KEYWORD == <<"yeonswaejorimma">>
JUMP_KEYWORD == <<"jorimping">>
EQ_KEYWORD == <<"jorimingan">>
GT_KEYWORD == <<"yokmangui", "jorimingan">>

----------------------------------------------------------------------------
(* Python string methods on sequences of pieces *)

\* s[i:j] with 0-based i, j (Python slice), 0 <= i, j <= len(s)
Slice(s, i, j) == IF j <= i THEN <<>> ELSE SubSeq(s, i + 1, j)

\* s.startswith(kw, i) with 0-based i
StartsWithAt(s, kw, i) ==
  /\ i + Len(kw) <= Len(s)
  /\ \A k \in 1..Len(kw) : s[i + k] = kw[k]

\* the least element of a non-empty set of integers
Least(S) == CHOOSE i \in S : \A j \in S : i <= j

\* s.find(kw): the least 0-based index of kw in s, or -1
Find(s, kw) ==
  LET hits == {i \in 0..(Len(s) - Len(kw)) : StartsWithAt(s, kw, i)}
  IN  IF hits = {} THEN -1 ELSE Least(hits)

\* kw in s
Contains(s, kw) == Find(s, kw) # -1

\* s.replace(kw, ""), kw non-empty
RECURSIVE Remove(_, _)
Remove(s, kw) ==
  LET i == Find(s, kw) IN
  IF i = -1 THEN s
  ELSE Slice(s, 0, i) \o Remove(Slice(s, i + Len(kw), Len(s)), kw)

IsSpace(p) == p \in {" ", "\n"}

\* s.strip()
RECURSIVE LStrip(_)
LStrip(s) == IF s # <<>> /\ IsSpace(Head(s)) THEN LStrip(Tail(s)) ELSE s

RECURSIVE RStrip(_)
RStrip(s) ==
  IF s # <<>> /\ IsSpace(s[Len(s)]) THEN RStrip(SubSeq(s, 1, Len(s) - 1)) ELSE s

Strip(s) == RStrip(LStrip(s))

\* s.split(sep) for a one-piece separator: empty segments are kept
RECURSIVE SplitOn(_, _)
SplitOn(s, sep) ==
  LET i == Find(s, <<sep>>) IN
  IF i = -1 THEN <<s>>
  ELSE <<Slice(s, 0, i)>> \o SplitOn(Slice(s, i + 1, Len(s)), sep)

\* s.split(): runs of whitespace separate, no empty token
RECURSIVE SplitWS(_, _)
SplitWS(s, cur) ==
  IF s = <<>> THEN (IF cur = <<>> THEN <<>> ELSE <<cur>>)
  ELSE IF IsSpace(Head(s))
       THEN (IF cur = <<>> THEN <<>> ELSE <<cur>>) \o SplitWS(Tail(s), <<>>)
       ELSE SplitWS(Tail(s), Append(cur, Head(s)))

Split(s) == SplitWS(s, <<>>)

\* " ".join(tokens)
RECURSIVE Join(_)
Join(tokens) ==
  IF tokens = <<>> THEN <<>>
  ELSE IF Len(tokens) = 1 THEN tokens[1]
  ELSE tokens[1] \o <<" ">> \o Join(Tail(tokens))

\* the elements of a sequence
Range(seq) == {seq[k] : k \in 1..Len(seq)}

\* [x for x in s if keep(x)]
RECURSIVE NonEmpty(_)
NonEmpty(s) ==
  IF s = <<>> THEN <<>>
  ELSE IF Head(s) = <<>> THEN NonEmpty(Tail(s))
  ELSE <<Head(s)>> \o NonEmpty(Tail(s))

----------------------------------------------------------------------------
(* 1. Lexer, core.py:27-99 *)

\* re.sub(r'("[^"]*"|\'[^\']*\')', '', raw_code): scanning left to right, a
\* quote that has a closing partner is removed with everything up to it
RECURSIVE RemoveQuoted(_)
RemoveQuoted(s) ==
  LET quotes == {i \in 1..Len(s) : s[i] \in {"\"", "'"}} IN
  IF quotes = {} THEN s
  ELSE LET i == Least(quotes)
           rest == SubSeq(s, i + 1, Len(s))
           j == Find(rest, <<s[i]>>)
       IN  IF j = -1 THEN SubSeq(s, 1, i) \o RemoveQuoted(rest)
           ELSE SubSeq(s, 1, i - 1) \o RemoveQuoted(Slice(rest, j + 1, Len(rest)))

\* clean_code without the comparison of the two indices
clean_code_raises_unordered(raw_code) ==
  LET no_comment_code == RemoveQuoted(raw_code)
  IN  \/ Find(no_comment_code, START_MARKER) = -1
      \/ Find(no_comment_code, END_MARKER) = -1

\* clean_code raises CKRSyntaxError
clean_code_raises(raw_code) ==
  LET no_comment_code == RemoveQuoted(raw_code)
      start_idx == Find(no_comment_code, START_MARKER) + Len(START_MARKER)
      end_idx == Find(no_comment_code, END_MARKER)
  IN  \/ Find(no_comment_code, START_MARKER) = -1
      \/ end_idx = -1
      \/ start_idx >= end_idx

\* the value clean_code returns when it does not raise
clean_code(raw_code) ==
  LET no_comment_code == RemoveQuoted(raw_code)
      start_idx == Find(no_comment_code, START_MARKER) + Len(START_MARKER)
      end_idx == Find(no_comment_code, END_MARKER)
  IN  Slice(no_comment_code, start_idx, end_idx)

\* the loop body of tokenize without the flush of an unfinished buffer when
\* the prefix keyword starts a new one
RECURSIVE GroupLine_no_flush(_, _, _)
GroupLine_no_flush(tokens, i, buffer) ==
  IF i > Len(tokens) THEN (IF buffer # <<>> THEN <<buffer>> ELSE <<>>)
  ELSE
    LET token == tokens[i]
        nextIsSuffix == i + 1 <= Len(tokens) /\ tokens[i + 1] \in SUFFIX_KEYWORDS
    IN  IF token \in SUFFIX_KEYWORDS
          THEN <<Append(buffer, token)>> \o GroupLine_no_flush(tokens, i + 1, <<>>)
        ELSE IF token = PREFIX_KEYWORD
          THEN GroupLine_no_flush(tokens, i + 1, <<token>>)
        ELSE IF nextIsSuffix /\ buffer # <<>> /\ buffer[1] = PREFIX_KEYWORD
          THEN <<buffer>> \o GroupLine_no_flush(tokens, i + 1, <<token>>)
        ELSE GroupLine_no_flush(tokens, i + 1, Append(buffer, token))

\* the loop body of tokenize over one line's tokens, from token i (1-based) on,
\* with the buffer accumulated so far; returns the groups appended
RECURSIVE GroupLine(_, _, _)
GroupLine(tokens, i, buffer) ==
  IF i > Len(tokens) THEN (IF buffer # <<>> THEN <<buffer>> ELSE <<>>)
  ELSE
    LET token == tokens[i]
        nextIsSuffix == i + 1 <= Len(tokens) /\ tokens[i + 1] \in SUFFIX_KEYWORDS
    IN  IF token \in SUFFIX_KEYWORDS
          THEN <<Append(buffer, token)>> \o GroupLine(tokens, i + 1, <<>>)
        ELSE IF token = PREFIX_KEYWORD
          THEN (IF buffer # <<>> THEN <<buffer>> ELSE <<>>)
               \o GroupLine(tokens, i + 1, <<token>>)
        ELSE IF nextIsSuffix /\ buffer # <<>> /\ buffer[1] = PREFIX_KEYWORD
          THEN <<buffer>> \o GroupLine(tokens, i + 1, <<token>>)
        ELSE GroupLine(tokens, i + 1, Append(buffer, token))

RECURSIVE GroupLines(_)
GroupLines(lines) ==
  IF lines = <<>> THEN <<>>
  ELSE GroupLine(Split(Head(lines)), 1, <<>>) \o GroupLines(Tail(lines))

\* [line.strip() for line in core_code.splitlines() if line.strip()]
RECURSIVE StripAll(_)
StripAll(lines) ==
  IF lines = <<>> THEN <<>> ELSE <<Strip(Head(lines))>> \o StripAll(Tail(lines))

start_lines(text) == NonEmpty(StripAll(SplitOn(text, "\n")))

\* tokenize, when clean_code does not raise
tokenize(raw_code) == GroupLines(start_lines(clean_code(raw_code)))

----------------------------------------------------------------------------
(* 2. Parser, core.py:102-125 *)

\* parse: the instructions and labels after the groups from i (1-based) on
RECURSIVE ParseFrom(_, _, _, _)
ParseFrom(instruction_groups, i, insts, labs) ==
  IF i > Len(instruction_groups) THEN [instructions |-> insts, labels |-> labs]
  ELSE
    LET tokens == instruction_groups[i] IN
    IF tokens = <<>> THEN ParseFrom(instruction_groups, i + 1, insts, labs)
    ELSE IF StartsWithAt(tokens[1], LABEL_KEYWORD, 0)
      THEN LET dots == Strip(Remove(tokens[1], LABEL_KEYWORD))
           IN  ParseFrom(instruction_groups, i + 1, insts,
                         (dots :> Len(insts)) @@ labs)
    ELSE ParseFrom(instruction_groups, i + 1,
                   Append(insts, [line |-> Join(tokens), tokens |-> tokens]), labs)

\* parse with the first definition of a label kept
RECURSIVE ParseFromFirst(_, _, _, _)
ParseFromFirst(instruction_groups, i, insts, labs) ==
  IF i > Len(instruction_groups) THEN [instructions |-> insts, labels |-> labs]
  ELSE
    LET tokens == instruction_groups[i] IN
    IF tokens = <<>> THEN ParseFromFirst(instruction_groups, i + 1, insts, labs)
    ELSE IF StartsWithAt(tokens[1], LABEL_KEYWORD, 0)
      THEN LET dots == Strip(Remove(tokens[1], LABEL_KEYWORD))
           IN  ParseFromFirst(instruction_groups, i + 1, insts,
                              labs @@ (dots :> Len(insts)))
    ELSE ParseFromFirst(instruction_groups, i + 1,
                        Append(insts, [line |-> Join(tokens), tokens |-> tokens]), labs)

parse_first_wins(instruction_groups) == ParseFromFirst(instruction_groups, 1, <<>>, <<>>)

\* parse with each label recorded one instruction late
parse_label_late(instruction_groups) ==
  LET r == ParseFrom(instruction_groups, 1, <<>>, <<>>)
  IN  [r EXCEPT !.labels = [n \in DOMAIN r.labels |-> r.labels[n] + 1]]

parse(instruction_groups) == ParseFrom(instruction_groups, 1, <<>>, <<>>)

----------------------------------------------------------------------------
(* 3. Evaluator, core.py:128-266 *)

\* the error kinds of CKRRuntimeError (core.py:142, 146, 151, 197, 264);
\* "none": no exception
ErrNone == "none"
ErrUndefined == "undefined"
ErrConstant == "constant"
ErrLabel == "label"
ErrUnknown == "unknown"
\* not a CKRRuntimeError: the OverflowError chr raises (core.py:258) for an
\* argument that is no C int; `except ValueError` does not catch it
ErrOverflow == "overflow"

\* chr(val) raises ValueError outside range(0x110000)
MaxCodePoint == 1114111
\* chr(val) raises OverflowError above the largest C int; it is also the largest
\* integer of the model checker, so a Python int above it is kept as INT_MAX in
\* the store with its name in the set big
INT_MAX == 2147483647
\* ord("?")
Placeholder == 63

\* defaultdict(int): the empty store
EmptyStore == [n \in {} |-> 0]

\* self.variables[name] of the defaultdict: a missing key reads as int() = 0
DefaultGet(vs, name) == IF name \in DOMAIN vs THEN vs[name] ELSE 0

\* self.variables[name] = value
Store(vs, name, value) == (name :> value) @@ vs

\* get_val: [err, val]
get_val(vs, name) ==
  IF name \in DOMAIN CONSTANTS_ THEN [err |-> ErrNone, val |-> CONSTANTS_[name]]
  ELSE IF name \in DOMAIN vs THEN [err |-> ErrNone, val |-> vs[name]]
  ELSE [err |-> ErrUndefined, val |-> 0]

\* check_mutable without its test
check_mutable_unchecked(name) == ErrNone

\* check_mutable: the error it raises
check_mutable(name) == IF name \in DOMAIN CONSTANTS_ THEN ErrConstant ELSE ErrNone

\* parse_subjects
RECURSIVE StripEach(_)
StripEach(parts) ==
  IF parts = <<>> THEN <<>> ELSE <<Strip(Head(parts))>> \o StripEach(Tail(parts))

parse_subjects(subject_chunk) ==
  IF subject_chunk = <<>> THEN <<>>
  ELSE NonEmpty(StripEach(SplitOn(subject_chunk, ",")))

\* [self.get_val(s) for s in subjects]: the first undefined name raises
RECURSIVE GetVals(_, _)
GetVals(vs, subjects) ==
  IF subjects = <<>> THEN [err |-> ErrNone, vals |-> <<>>]
  ELSE LET h == get_val(vs, Head(subjects))
           t == GetVals(vs, Tail(subjects))
       IN  IF h.err # ErrNone THEN [err |-> h.err, vals |-> <<>>]
           ELSE IF t.err # ErrNone THEN t
           ELSE [err |-> ErrNone, vals |-> <<h.val>> \o t.vals]

RECURSIVE Sum(_)
Sum(vals) == IF vals = <<>> THEN 0 ELSE Head(vals) + Sum(Tail(vals))

\* the product accumulated with += for *=
Product_added(vals) == 1 + Sum(vals)

RECURSIVE Product(_)
Product(vals) == IF vals = <<>> THEN 1 ELSE Head(vals) * Product(Tail(vals))

\* the condition with >= for > and without the single-value cases
ConditionMet_loose(cond_op, values) ==
  IF values = <<>> THEN FALSE
  ELSE IF cond_op = EQ_KEYWORD THEN \A k \in 1..Len(values) : values[k] = values[1]
  ELSE IF cond_op = GT_KEYWORD THEN \A k \in 2..Len(values) : values[1] >= values[k]
  ELSE TRUE

\* the condition with a single value compared with itself, not with 0
ConditionMet_self(cond_op, values) ==
  IF values = <<>> THEN FALSE
  ELSE IF cond_op = EQ_KEYWORD THEN \A k \in 1..Len(values) : values[k] = values[1]
  ELSE IF cond_op = GT_KEYWORD
    THEN IF Len(values) = 1 THEN values[1] > 0
         ELSE \A k \in 2..Len(values) : values[1] > values[k]
  ELSE TRUE

\* the condition of a conditional jump over the resolved values, core.py:184-193;
\* condition_met starts True and stays so when cond_op is neither keyword
ConditionMet(cond_op, values) ==
  IF values = <<>> THEN FALSE
  ELSE IF cond_op = EQ_KEYWORD
    THEN IF Len(values) = 1 THEN values[1] = 0
         ELSE \A k \in 1..Len(values) : values[k] = values[1]
  ELSE IF cond_op = GT_KEYWORD
    THEN IF Len(values) = 1 THEN values[1] > 0
         ELSE \A k \in 2..Len(values) : values[1] > values[k]
  ELSE TRUE

\* the test that makes a jump conditional, core.py:179
IsConditional(tokens) ==
  /\ Len(tokens) >= 2
  /\ \/ Contains(tokens[Len(tokens) - 1], EQ_KEYWORD)
     \/ Contains(tokens[Len(tokens) - 1], GT_KEYWORD)

\* the state a step leaves: st is [variables, out, pc, err]
Raise(st, e) == [st EXCEPT !.err = e]
Advance(st) == [st EXCEPT !.pc = st.pc + 1]

\* control flow without the continue after a jump: pc is incremented again
ExecJump_no_continue(tokens, cmd, labs, st) ==
  LET target_dots == Remove(cmd, JUMP_KEYWORD)
      cond_op == tokens[Len(tokens) - 1]
      subjects == parse_subjects(Join(SubSeq(tokens, 1, Len(tokens) - 2)))
      got == GetVals(st.variables, subjects)
      condition_met ==
        IF IsConditional(tokens) THEN ConditionMet(cond_op, got.vals) ELSE TRUE
  IN  IF IsConditional(tokens) /\ got.err # ErrNone THEN Raise(st, got.err)
      ELSE IF condition_met
        THEN IF target_dots \notin DOMAIN labs THEN Raise(st, ErrLabel)
             ELSE [st EXCEPT !.pc = labs[target_dots] + 1]
      ELSE Advance(st)

\* control flow, core.py:174-199
ExecJump(tokens, cmd, labs, st) ==
  LET target_dots == Remove(cmd, JUMP_KEYWORD)
      cond_op == tokens[Len(tokens) - 1]
      subjects == parse_subjects(Join(SubSeq(tokens, 1, Len(tokens) - 2)))
      got == GetVals(st.variables, subjects)
      condition_met ==
        IF IsConditional(tokens) THEN ConditionMet(cond_op, got.vals) ELSE TRUE
  IN  IF IsConditional(tokens) /\ got.err # ErrNone THEN Raise(st, got.err)
      ELSE IF condition_met
        THEN IF target_dots \notin DOMAIN labs THEN Raise(st, ErrLabel)
             ELSE [st EXCEPT !.pc = labs[target_dots]]
      ELSE Advance(st)

\* SET, core.py:208-211
RECURSIVE ExecDeclare(_, _)
ExecDeclare(subjects, st) ==
  IF subjects = <<>> THEN Advance(st)
  ELSE IF check_mutable(Head(subjects)) # ErrNone
    THEN Raise(st, check_mutable(Head(subjects)))
  ELSE ExecDeclare(Tail(subjects),
                   [st EXCEPT !.variables = Store(st.variables, Head(subjects), 0)])

\* ADD, SUB, MUL, core.py:213-244
ExecArith(cmd, subjects, st) ==
  IF subjects = <<>> THEN Advance(st)
  ELSE
    LET target == subjects[1]
        old == DefaultGet(st.variables, target)
        got == GetVals(st.variables, subjects)
        over == \/ cmd = <<"joryeo">> /\ old = INT_MAX
                \/ cmd = <<"jorigo">> /\ old > INT_MAX \div 2
        unit == IF over THEN INT_MAX
                ELSE IF cmd = <<"joryeo">> THEN old + 1
                ELSE IF cmd = <<"jorinda">> THEN old - 1
                ELSE old * 2
        fold == IF cmd = <<"joryeo">> THEN Sum(got.vals)
                ELSE IF cmd = <<"jorinda">> THEN got.vals[1] - Sum(Tail(got.vals))
                ELSE Product(got.vals)
    IN  IF check_mutable(target) # ErrNone THEN Raise(st, check_mutable(target))
        ELSE IF Len(subjects) = 1
          THEN Advance([st EXCEPT !.variables = Store(st.variables, target, unit),
                                  !.big = IF over THEN st.big \cup {target}
                                          ELSE st.big])
        ELSE IF got.err # ErrNone THEN Raise(st, got.err)
        ELSE Advance([st EXCEPT !.variables = Store(st.variables, target, fold)])

\* INVERSE, core.py:246-249
RECURSIVE ExecNegate(_, _)
ExecNegate(subjects, st) ==
  IF subjects = <<>> THEN Advance(st)
  ELSE IF check_mutable(Head(subjects)) # ErrNone
    THEN Raise(st, check_mutable(Head(subjects)))
  ELSE ExecNegate(Tail(subjects),
                  [st EXCEPT !.variables =
                     Store(st.variables, Head(subjects),
                           0 - DefaultGet(st.variables, Head(subjects)))])

\* print(chr(val)) or print("?"), core.py:254-260: the code point emitted
Emit(val) == IF 0 <= val /\ val <= MaxCodePoint THEN val ELSE Placeholder

\* chr(val) raises OverflowError: val is above the largest C int
ChrOverflows(st, name) == name \in st.big

\* PRINT, core.py:251-260
RECURSIVE ExecPrint(_, _)
ExecPrint(subjects, st) ==
  IF subjects = <<>> THEN Advance(st)
  ELSE LET got == get_val(st.variables, Head(subjects)) IN
       IF got.err # ErrNone THEN Raise(st, got.err)
       ELSE IF ChrOverflows(st, Head(subjects)) THEN Raise(st, ErrOverflow)
       ELSE ExecPrint(Tail(subjects), [st EXCEPT !.out = Append(st.out, Emit(got.val))])

\* cmd of an instruction, core.py:165-168
Cmd(tokens) == IF tokens[1] = PREFIX_KEYWORD THEN PREFIX_KEYWORD ELSE tokens[Len(tokens)]

\* the subjects of an operation, core.py:203-206
Subjects(tokens) ==
  IF Cmd(tokens) = PREFIX_KEYWORD
    THEN parse_subjects(Join(Tail(tokens)))
    ELSE parse_subjects(Join(SubSeq(tokens, 1, Len(tokens) - 1)))

\* one iteration of the loop of run, core.py:160-266
Exec(tokens, labs, st) ==
  LET cmd == Cmd(tokens)
      subjects == Subjects(tokens)
  IN  IF Contains(cmd, JUMP_KEYWORD) THEN ExecJump(tokens, cmd, labs, st)
      ELSE IF cmd = PREFIX_KEYWORD THEN ExecDeclare(subjects, st)
      ELSE IF cmd \in {<<"joryeo">>, <<"jorinda">>, <<"jorigo">>}
        THEN ExecArith(cmd, subjects, st)
      ELSE IF cmd = <<"ang">> THEN ExecNegate(subjects, st)
      ELSE IF cmd = <<"eul">> THEN ExecPrint(subjects, st)
      ELSE Raise(st, ErrUnknown)

----------------------------------------------------------------------------
(* The source texts the model runs *)

\* lines joined by newlines
RECURSIVE Lines(_)
Lines(ls) == IF ls = <<>> THEN <<>> ELSE Head(ls) \o <<"\n">> \o Lines(Tail(ls))

\* a well-formed source file: the markers around the body
Program(ls) == START_MARKER \o <<"\n">> \o Lines(ls) \o END_MARKER \o <<"\n">>

\* n copies of a line
RECURSIVE Repeat(_, _)
Repeat(line, n) == IF n <= 0 THEN <<>> ELSE <<line>> \o Repeat(line, n - 1)

Abs(v) == IF v < 0 THEN 0 - v ELSE v

\* lines that leave name holding v: |v| increments, then a negation
SetTo(name, v) ==
  Repeat(name \o <<" ", "joryeo">>, Abs(v))
  \o (IF v < 0 THEN <<name \o <<" ", "ang">>>> ELSE <<>>)

\* declares a and b and gives them the values va and vb
Prelude(va, vb) ==
  <<<<"naya", " ", "a", ",", " ", "b">>>> \o SetTo(<<"a">>, va) \o SetTo(<<"b">>, vb)

\* after the instruction under test: print a, the label "", print b, print u
Epilogue ==
  << <<"a", " ", "eul">>, <<"yeonswaejorimma">>, <<"b", " ", "eul">>, <<"u", " ", "eul">> >>

\* a declared variable, another, a name never declared by the prelude, a constant
TestNames == {<<"a">>, <<"b">>, <<"u">>, <<"budeulbudeul">>}

RECURSIVE JoinWith(_, _)
JoinWith(names, sep) ==
  IF names = <<>> THEN <<>>
  ELSE IF Len(names) = 1 THEN names[1]
  ELSE names[1] \o sep \o JoinWith(Tail(names), sep)

\* subject lists of up to MaxSubj names, separated by ", " or by " " alone
SubjectTexts ==
  {JoinWith(l, sep) : l \in UNION {[1..k -> TestNames] : k \in 0..MaxSubj},
                      sep \in {<<",", " ">>, <<" ">>}}

\* what follows the subjects: nothing, a command, or a jump to the label ""
\* (defined) or "." (not defined), unconditional or under a condition token
Endings ==
  {<<>>, <<"joryeo">>, <<"jorinda">>, <<"jorigo">>, <<"ang">>, <<"eul">>}
  \cup {c \o j : c \in {<<>>, EQ_KEYWORD \o <<" ">>, GT_KEYWORD \o <<" ">>,
                         <<"x">> \o EQ_KEYWORD \o <<" ">>},
                  j \in {JUMP_KEYWORD, JUMP_KEYWORD \o <<".">>}}

TestLines ==
  {PREFIX_KEYWORD \o <<" ">> \o t : t \in SubjectTexts}
  \cup {t \o <<" ">> \o e : t \in SubjectTexts, e \in Endings}

Generated ==
  {Program(Prelude(va, vb) \o <<t>> \o Epilogue) :
     va \in (0 - MaxInit)..MaxInit, vb \in 0..MaxInit, t \in TestLines}

\* hand-written sources
Extras ==
  { \* no end marker
    START_MARKER \o <<"\n", "naya", " ", "a", "\n">>,
    \* the end marker before the start marker
    END_MARKER \o <<"\n">> \o START_MARKER \o <<"\n">>,
    \* a quoted comment, and text outside the markers
    <<"a", " ", "eul", "\n">>
      \o Program(<< <<"naya", " ", "a", " ", "\"", "u", " ", "eul", "\"">>,
                    <<"a", " ", "joryeo", " ", "a", " ", "eul">> >>),
    \* keywords after the prefix keyword
    Program(<< <<"naya", " ", "joryeo">> >>),
    Program(<< <<"naya", " ", "jorimingan">> >>),
    \* a declare over tokens separated by whitespace alone, then a read
    Program(<< <<"naya", " ", "a", " ", "u">>, <<"u", " ", "eul">> >>),
    \* a declare whose second subject is a constant
    Program(<< <<"naya", " ", "u", ",", " ", "budeulbudeul">> >>),
    Program(<< <<"naya", " ", "a", " ", "naya", " ", "poksinpoksin">> >>),
    \* 2 * 3 * 4
    Program(<< <<"naya", " ", "a", ",", "b", ",", "c">>,
               <<"a", " ", "joryeo", " ", "a", " ", "jorigo">>,
               <<"b", " ", "joryeo", " ", "b", " ", "joryeo", " ", "b", " ", "joryeo">>,
               <<"c", " ", "joryeo", " ", "c", " ", "jorigo", " ", "c", " ", "jorigo">>,
               <<"a", ",", " ", "b", ",", " ", "c", " ", "jorigo">> >>),
    \* a counting loop: while c # 0: c -= 1
    Program(<< <<"naya", " ", "c", " ", "c", " ", "joryeo", " ", "c", " ", "joryeo">>,
               <<"yeonswaejorimma", ".">>,
               <<"c", " ", "jorimingan", " ", "jorimping", ".", ".">>,
               <<"c", " ", "jorinda">>,
               <<"jorimping", ".">>,
               <<"yeonswaejorimma", ".", ".">> >>) }

Sources == Generated \cup Extras

\* the programs of the print specification double a at most MaxDoublings times
MaxDoublings == 31

\* a = 2^d, negated or not, b = 0; then print a and b, then print b
PrintProgram(d, negated) ==
  Program(<< <<"naya", " ", "a", ",", " ", "b">>, <<"a", " ", "joryeo">> >>
          \o Repeat(<<"a", " ", "jorigo">>, d)
          \o (IF negated THEN << <<"a", " ", "ang">> >> ELSE <<>>)
          \o << <<"a", ",", " ", "b", " ", "eul">>, <<"b", " ", "eul">> >>)

PrintSources ==
  {PrintProgram(d, negated) : d \in 0..MaxDoublings, negated \in BOOLEAN}
  \cup {START_MARKER \o <<"\n", "a", " ", "eul", "\n">>}

\* the bodies of the lexer specification have lines of at most MaxTokens tokens
MaxTokens == 4

\* the tokens of those lines: the prefix keyword, a name, two suffix keywords
\* and a label definition
LexTokens ==
  {PREFIX_KEYWORD, <<"a">>, <<"eul">>, <<"joryeo">>, LABEL_KEYWORD \o <<".">>}

\* the lines of 1..n of these tokens, a space between two tokens
LexLines(n) == {JoinWith(l, <<" ">>) : l \in UNION {[1..k -> LexTokens] : k \in 1..n}}

\* lines and bodies with blank lines and more than one space between tokens
SpacedBodies ==
  { <<" ", "naya", " ", " ", "a", " ", "\n", "\n", " ", "\n", "a", " ", " ", "eul">>,
    <<"\n", "\n", "a", " ", "joryeo", " ", " ", "a", " ", "eul", " ", "\n", " ">>,
    <<"a", "\n", "\n", "eul", "\n", " ", " ", "naya", "\n">>,
    <<" ", "\n", " ">>,
    <<"\n">> }

\* what precedes the start marker: nothing, a line, marker text, an opening
\* quote, the start marker in a quoted span
Prologues ==
  { <<>>,
    <<"a", " ", "eul", "\n">>,
    START_MARKER \o <<"\n">>,
    END_MARKER \o <<"\n">>,
    <<"\"">>,
    <<"\"">> \o START_MARKER \o <<"\"", "\n">> }

\* what stands between the markers: nothing, a line break, a line, the end of
\* the end marker, the end marker in a quoted span, a line with one quote
Bodies ==
  { <<>>,
    <<"\n">>,
    <<"\n", "a", " ", "eul", "\n">>,
    <<" ", "useung", "\n">>,
    <<"\n", "'">> \o END_MARKER \o <<"'", "\n">>,
    <<"\n", "a", " ", "\"", "\n">> }

\* what follows the end marker: nothing, text, marker text, a quote
Epilogues ==
  { <<>>, <<"\n", "a">>, END_MARKER, <<"\n">> \o START_MARKER, <<"\"", "x">> }

\* prologue, start marker, body, end marker, epilogue; the same without one
\* of the markers; the markers in the wrong order
CleanSources ==
  {p \o START_MARKER \o b \o END_MARKER \o e :
     p \in Prologues, b \in Bodies, e \in Epilogues}
  \cup {p \o START_MARKER \o b : p \in Prologues, b \in Bodies}
  \cup {p \o b \o END_MARKER \o e : p \in Prologues, b \in Bodies, e \in Epilogues}
  \cup {p \o END_MARKER \o b \o START_MARKER \o e :
           p \in Prologues, b \in Bodies, e \in Epilogues}

\* one line, or two lines of at most two tokens, between the markers; bodies
\* with irregular spacing; sources with and without markers and quotes
LexSources ==
  {Program(<<l>>) : l \in LexLines(MaxTokens)}
  \cup {Program(<<l1, l2>>) : l1 \in LexLines(2), l2 \in LexLines(2)}
  \cup {START_MARKER \o b \o END_MARKER : b \in SpacedBodies}
  \cup CleanSources

\* the parser specification parses at most MaxGroups groups
MaxGroups == 3

\* the groups given to parse: an empty group, instructions, definitions of
\* the labels "" and ".", a token that names "." with the label keyword
\* in it twice, a label definition followed by a token, and a group whose
\* second token starts with the label keyword
ParseGroups ==
  { <<>>,
    << <<"a">>, <<"joryeo">> >>,
    << <<"a">>, <<"eul">> >>,
    << PREFIX_KEYWORD, <<"a">> >>,
    << LABEL_KEYWORD >>,
    << LABEL_KEYWORD \o <<".">> >>,
    << LABEL_KEYWORD \o <<".">> \o LABEL_KEYWORD >>,
    << LABEL_KEYWORD \o <<".">>, <<"a">> >>,
    << <<"a">>, LABEL_KEYWORD \o <<".">> >> }

GroupSeqs == UNION {[1..k -> ParseGroups] : k \in 0..MaxGroups}

\* the counting loops start from a counter of at most MaxCount
MaxCount == 6

\* c = n; "." : if c = 0 goto ".."; c -= 1; goto "."; ".." :
LoopProgram(n) ==
  Program(<< <<"naya", " ", "c">> >>
          \o Repeat(<<"c", " ", "joryeo">>, n)
          \o << <<"yeonswaejorimma", ".">>,
                <<"c", " ", "jorimingan", " ", "jorimping", ".", ".">>,
                <<"c", " ", "jorinda">>,
                <<"jorimping", ".">>,
                <<"yeonswaejorimma", ".", ".">> >>)

LoopSources == {LoopProgram(n) : n \in 0..MaxCount}

----------------------------------------------------------------------------
(* The pipeline: tokenize, parse, run *)

NoStep == [pc |-> -1, variables |-> EmptyStore, out |-> <<>>]

\* before the first call of run has ended: no outcome of it yet
NoCall == [out |-> <<>>, variables |-> EmptyStore, err |-> ErrNone, pc |-> -1]

Init ==
  /\ source \in Sources
  /\ phase = "source"
  /\ core_code = <<>>
  /\ groups = <<>>
  /\ instructions = <<>>
  /\ labels = EmptyStore
  /\ pc = 0
  /\ variables = EmptyStore
  /\ out = <<>>
  /\ err = ErrNone
  /\ prev = NoStep
  /\ calls = 0
  /\ first = NoCall
  /\ big = {}
  /\ executed = <<>>

\* CKRLexer.tokenize returns the groups
Tokenize ==
  /\ phase = "source"
  /\ ~clean_code_raises(source)
  /\ core_code' = clean_code(source)
  /\ groups' = tokenize(source)
  /\ phase' = "tokens"
  /\ UNCHANGED <<source, instructions, labels, pc, variables, out, err, prev, calls, first, big,
                 executed>>

\* CKRLexer.tokenize raises CKRSyntaxError
SyntaxError ==
  /\ phase = "source"
  /\ clean_code_raises(source)
  /\ phase' = "syntax_error"
  /\ UNCHANGED <<source, core_code, groups, instructions, labels, pc, variables, out, err, prev,
                 calls, first, big, executed>>

\* CKRParser.parse, then run is entered: self.pc = 0
Parse ==
  /\ phase = "tokens"
  /\ instructions' = parse(groups).instructions
  /\ labels' = parse(groups).labels
  /\ pc' = 0
  /\ phase' = "run"
  /\ calls' = 1
  /\ executed' = [k \in 1..Len(parse(groups).instructions) |-> 0]
  /\ UNCHANGED <<source, core_code, groups, variables, out, err, prev, first, big>>

\* the cap of the model on Python's unbounded integers: an instruction over a
\* name whose value is above INT_MAX is run only when it is a print, and a
\* value is doubled or decremented only when the result is no less than -INT_MAX
Representable(tokens, vs, bg) ==
  /\ Cmd(tokens) # <<"eul">> => Range(Subjects(tokens)) \cap bg = {}
  /\ \A n \in Range(Subjects(tokens)) \cap DOMAIN vs : vs[n] >= 0 - (INT_MAX \div 2)

\* one iteration of the loop of run; prev keeps what the iteration started from
Step ==
  /\ phase = "run"
  /\ pc < Len(instructions)
  /\ Representable(instructions[pc + 1].tokens, variables, big)
  /\ LET r == Exec(instructions[pc + 1].tokens, labels,
                   [variables |-> variables, out |-> out, pc |-> pc, err |-> ErrNone,
                    big |-> big])
     IN  /\ variables' = r.variables
         /\ big' = r.big
         /\ out' = r.out
         /\ pc' = r.pc
         /\ err' = r.err
         /\ phase' = IF r.err # ErrNone THEN "error" ELSE "run"
  /\ prev' = [pc |-> pc, variables |-> variables, out |-> out]
  /\ executed' = [executed EXCEPT ![pc + 1] = @ + 1]
  /\ UNCHANGED <<source, core_code, groups, instructions, labels, calls, first>>

\* the loop of run ends: pc reached len(instructions)
Halt ==
  /\ phase = "run"
  /\ pc >= Len(instructions)
  /\ phase' = "done"
  /\ UNCHANGED <<source, core_code, groups, instructions, labels, pc, variables, out, err, prev,
                 calls, first, big, executed>>

\* the pipeline started on one of the print programs
InitPrint ==
  /\ source \in PrintSources
  /\ phase = "source"
  /\ core_code = <<>>
  /\ groups = <<>>
  /\ instructions = <<>>
  /\ labels = EmptyStore
  /\ pc = 0
  /\ variables = EmptyStore
  /\ out = <<>>
  /\ err = ErrNone
  /\ prev = NoStep
  /\ calls = 0
  /\ first = NoCall
  /\ big = {}
  /\ executed = <<>>

\* the pipeline started on one of the lexer sources
InitLex ==
  /\ source \in LexSources
  /\ phase = "source"
  /\ core_code = <<>>
  /\ groups = <<>>
  /\ instructions = <<>>
  /\ labels = EmptyStore
  /\ pc = 0
  /\ variables = EmptyStore
  /\ out = <<>>
  /\ err = ErrNone
  /\ prev = NoStep
  /\ calls = 0
  /\ first = NoCall
  /\ big = {}
  /\ executed = <<>>

\* parse is called on a sequence of groups
InitParse ==
  /\ source = <<>>
  /\ phase = "tokens"
  /\ core_code = <<>>
  /\ groups \in GroupSeqs
  /\ instructions = <<>>
  /\ labels = EmptyStore
  /\ pc = 0
  /\ variables = EmptyStore
  /\ out = <<>>
  /\ err = ErrNone
  /\ prev = NoStep
  /\ calls = 0
  /\ first = NoCall
  /\ big = {}
  /\ executed = <<>>

\* the pipeline started on one of the counting loops
InitLoop ==
  /\ source \in LoopSources
  /\ phase = "source"
  /\ core_code = <<>>
  /\ groups = <<>>
  /\ instructions = <<>>
  /\ labels = EmptyStore
  /\ pc = 0
  /\ variables = EmptyStore
  /\ out = <<>>
  /\ err = ErrNone
  /\ prev = NoStep
  /\ calls = 0
  /\ first = NoCall
  /\ big = {}
  /\ executed = <<>>

Next == Tokenize \/ SyntaxError \/ Parse \/ Step \/ Halt

Spec == Init /\ [][Next]_vars

\* the pipeline over the print programs
SpecPrint == InitPrint /\ [][Next]_vars

\* the pipeline over the lexer sources
SpecLex == InitLex /\ [][Next]_vars

NextParse == Parse \/ Step \/ Halt

\* parse on a sequence of groups, then run
SpecParse == InitParse /\ [][NextParse]_vars

NextLoop == Tokenize \/ Parse \/ Step \/ Halt

\* the pipeline over the counting loops.  run is one sequential loop that is
\* never suspended: an iteration that can be taken is taken, and the loop is
\* left when its test fails
SpecLoop == InitLoop /\ [][NextLoop]_vars /\ WF_vars(Step) /\ WF_vars(Halt)

\* run is called again on the same evaluator with the same instructions and
\* labels, after the first call returned or raised: self.pc = 0, and
\* self.variables is what the first call left; out restarts to hold the second
\* call's output, first keeps the outcome of the first call
Rerun ==
  /\ phase \in {"done", "error"}
  /\ calls = 1
  /\ first' = [out |-> out, variables |-> variables, err |-> err, pc |-> pc]
  /\ calls' = 2
  /\ pc' = 0
  /\ out' = <<>>
  /\ err' = ErrNone
  /\ prev' = NoStep
  /\ phase' = "run"
  /\ executed' = [k \in 1..Len(instructions) |-> 0]
  /\ UNCHANGED <<source, core_code, groups, instructions, labels, variables, big>>

NextRerun == Tokenize \/ SyntaxError \/ Parse \/ Step \/ Halt \/ Rerun

\* the pipeline, with run called twice on one evaluator
SpecRerun == Init /\ [][NextRerun]_vars

TypeOK ==
  /\ phase \in {"source", "tokens", "syntax_error", "run", "error", "done"}
  /\ pc \in Nat
  /\ err \in {ErrNone, ErrUndefined, ErrConstant, ErrLabel, ErrUnknown, ErrOverflow}

----------------------------------------------------------------------------
(* The last executed instruction, for the properties below *)

\* an iteration of the loop of run has been executed
Stepped == prev.pc >= 0

LastTokens == instructions[prev.pc + 1].tokens
LastCmd == Cmd(LastTokens)
LastSubjects == Subjects(LastTokens)
Failed == err # ErrNone

\* name is a constant or a key of the store vs
Defined(vs, name) == name \in DOMAIN CONSTANTS_ \/ name \in DOMAIN vs

\* the value of a defined name in the store vs
ValueOf(vs, name) == IF name \in DOMAIN CONSTANTS_ THEN CONSTANTS_[name] ELSE vs[name]

ArithCmds == {<<"joryeo">>, <<"jorinda">>, <<"jorigo">>}

\* the last instruction is a jump whose second-to-last token is a comparator
LastIsJump == Contains(LastCmd, JUMP_KEYWORD)
LastComparator == LastTokens[Len(LastTokens) - 1]
LastIsComparatorJump ==
  LastIsJump /\ Len(LastTokens) >= 2 /\ LastComparator \in {EQ_KEYWORD, GT_KEYWORD}
LastJumpSubjects ==
  parse_subjects(Join(SubSeq(LastTokens, 1, Len(LastTokens) - 2)))
LastTarget == Remove(LastCmd, JUMP_KEYWORD)

----------------------------------------------------------------------------
(* Properties *)

\* C1: no instruction executes partially: when an instruction raises a
\* RuntimeError, the variable store is what it was before the instruction began
\* and the instruction has emitted no output.
C1_NoPartialExecution ==
  (Stepped /\ Failed) => (variables = prev.variables /\ out = prev.out)

\* the names whose current value the last instruction uses (declare uses none)
LastUsedNames ==
  IF LastCmd \in ArithCmds \cup {<<"ang">>, <<"eul">>} THEN Range(LastSubjects)
  ELSE IF LastIsComparatorJump THEN Range(LastJumpSubjects)
  ELSE {}

\* the names the last instruction writes
LastWriteTargets ==
  IF LastCmd \in {PREFIX_KEYWORD, <<"ang">>} THEN Range(LastSubjects)
  ELSE IF LastCmd \in ArithCmds /\ LastSubjects # <<>> THEN {LastSubjects[1]}
  ELSE {}

\* C2: a name receives an implicit 0 only through declare: every other
\* instruction that uses the value of a name that is neither a constant nor in the
\* store fails with RuntimeError (undefined) and does not add the name to the
\* store; after a declare on a name, reading it returns 0.
C2_ImplicitZeroOnlyByDeclare ==
  /\ ( /\ Stepped
       /\ LastCmd # PREFIX_KEYWORD
       /\ \E n \in LastUsedNames : ~Defined(prev.variables, n)
       /\ LastWriteTargets \cap DOMAIN CONSTANTS_ = {} )
     => (err = ErrUndefined /\ DOMAIN variables = DOMAIN prev.variables)
  /\ (Stepped /\ LastCmd = PREFIX_KEYWORD /\ ~Failed)
     => \A n \in Range(LastSubjects) :
          get_val(variables, n) = [err |-> ErrNone, val |-> 0]

\* C3: a declare instruction in which a token after the prefix keyword is a
\* constant name fails with RuntimeError (constant) before any store mutation,
\* and the constants still resolve to their fixed values.
C3_DeclareConstantFailsFirst ==
  ( /\ Stepped
    /\ LastTokens[1] = PREFIX_KEYWORD
    /\ \E i \in 2..Len(LastTokens) : LastTokens[i] \in DOMAIN CONSTANTS_ )
  => /\ err = ErrConstant
     /\ variables = prev.variables
     /\ \A c \in DOMAIN CONSTANTS_ : get_val(variables, c).val = CONSTANTS_[c]

\* C4: a conditional jump whose target label is not in the label table fails
\* with RuntimeError (missing label) whether its condition is true or false; it
\* never falls through.
C4_MissingLabelAlwaysFails ==
  ( /\ Stepped
    /\ LastIsComparatorJump
    /\ LastTarget \notin DOMAIN labels
    /\ \A n \in Range(LastJumpSubjects) : Defined(prev.variables, n) )
  => (err = ErrLabel /\ pc = prev.pc)

\* the values, before the last instruction, of a list of defined names
ValuesBefore(names) == [k \in 1..Len(names) |-> ValueOf(prev.variables, names[k])]

AllDefinedBefore(names) == \A n \in Range(names) : Defined(prev.variables, n)

\* the comparator semantics as documented, over values v[1..n]
EqualityHolds(v) ==
  \/ Len(v) = 1 /\ v[1] = 0
  \/ Len(v) > 1 /\ \A k \in 1..Len(v) : v[k] = v[1]

GreaterHolds(v) ==
  \/ Len(v) = 1 /\ v[1] > 0
  \/ Len(v) > 1 /\ \A k \in 2..Len(v) : v[1] > v[k]

\* C5: a conditional jump to an existing label, its subjects resolving to
\* v[1..n]: the program counter becomes the label's index iff the comparator
\* holds of v (equality: n = 1 and v[1] = 0, or n > 1 and all values equal v[1];
\* greater-than: n = 1 and v[1] > 0, or n > 1 and v[1] above every other value;
\* never with n = 0), and pc + 1 otherwise; the store is unchanged either way.
C5_ConditionalJump ==
  ( /\ Stepped
    /\ LastIsComparatorJump
    /\ LastTarget \in DOMAIN labels
    /\ AllDefinedBefore(LastJumpSubjects) )
  => LET v == ValuesBefore(LastJumpSubjects)
         holds == IF LastComparator = EQ_KEYWORD THEN EqualityHolds(v)
                  ELSE GreaterHolds(v)
     IN  /\ ~Failed
         /\ variables = prev.variables
         /\ pc = IF holds THEN labels[LastTarget] ELSE prev.pc + 1

\* C5 witness: a greater-than jump over two subjects has been taken.
C5_Witness ==
  /\ Stepped
  /\ LastIsComparatorJump
  /\ LastComparator = GT_KEYWORD
  /\ Len(LastJumpSubjects) = 2
  /\ ~Failed
  /\ LastTarget \in DOMAIN labels
  /\ pc = labels[LastTarget]
  /\ pc # prev.pc + 1

\* C6: a jump whose second-to-last token is not one of the two comparator
\* keywords (or which has a single token) is unconditional: it resolves no
\* operand, so it raises no undefined-variable error, and it is always taken to
\* its label.
C6_OnlyComparatorMakesConditional ==
  (Stepped /\ LastIsJump /\ ~LastIsComparatorJump)
  => /\ err # ErrUndefined
     /\ IF LastTarget \in DOMAIN labels
          THEN ~Failed /\ pc = labels[LastTarget]
          ELSE err = ErrLabel

RECURSIVE SumOf(_)
SumOf(v) == IF v = <<>> THEN 0 ELSE Head(v) + SumOf(Tail(v))

RECURSIVE ProductOf(_)
ProductOf(v) == IF v = <<>> THEN 1 ELSE Head(v) * ProductOf(Tail(v))

\* C7: add, subtract and multiply on a non-constant first subject x, all
\* subjects defined: with one subject x becomes old(x)+1, old(x)-1, old(x)*2;
\* with several, the sum of all subjects' values, x's value minus the sum of the
\* others, the product of all subjects' values, all read before the write.
C7_Arithmetic ==
  ( /\ Stepped
    /\ LastCmd \in ArithCmds
    /\ LastSubjects # <<>>
    /\ LastSubjects[1] \notin DOMAIN CONSTANTS_
    /\ AllDefinedBefore(LastSubjects) )
  => LET v == ValuesBefore(LastSubjects)
         x == LastSubjects[1]
         expected ==
           IF Len(v) = 1
             THEN (IF LastCmd = <<"joryeo">> THEN v[1] + 1
                   ELSE IF LastCmd = <<"jorinda">> THEN v[1] - 1
                   ELSE v[1] * 2)
             ELSE (IF LastCmd = <<"joryeo">> THEN SumOf(v)
                   ELSE IF LastCmd = <<"jorinda">> THEN v[1] - SumOf(Tail(v))
                   ELSE ProductOf(v))
     IN  /\ ~Failed
         /\ x \in DOMAIN variables
         /\ variables[x] = expected

\* C7 witness: a multiply over three subjects holding 2, 3, 4 has assigned 24.
C7_Witness ==
  /\ Stepped
  /\ LastCmd = <<"jorigo">>
  /\ LastSubjects = << <<"a">>, <<"b">>, <<"c">> >>
  /\ ValuesBefore(LastSubjects) = <<2, 3, 4>>
  /\ variables[<<"a">>] = 24

\* C8: after a successful declare with tokens t1..tk after the prefix keyword,
\* none a constant, each ti is by itself a variable with value 0, whether the
\* tokens were separated by commas or only by whitespace.
C8_DeclareEveryToken ==
  LET names == UNION {Range(parse_subjects(LastTokens[i])) : i \in 2..Len(LastTokens)}
  IN  ( /\ Stepped
        /\ LastTokens[1] = PREFIX_KEYWORD
        /\ ~Failed
        /\ names \cap DOMAIN CONSTANTS_ = {} )
      => \A n \in names : get_val(variables, n) = [err |-> ErrNone, val |-> 0]

\* the reserved keywords
Reserved ==
  {PREFIX_KEYWORD} \cup SUFFIX_KEYWORDS \cup {EQ_KEYWORD, GT_KEYWORD}
  \cup DOMAIN CONSTANTS_

\* C9: no key of the variable store is the prefix keyword, a suffix keyword,
\* a comparator keyword or a constant name.
C9_NoReservedVariableName == DOMAIN variables \cap Reserved = {}

\* C10: no constant name is a key of the variable store, the three constants
\* resolve to 0, -1 and 1, and every instruction with a constant name among its
\* write targets fails with RuntimeError (constant).
C10_ConstantsImmutable ==
  /\ DOMAIN variables \cap DOMAIN CONSTANTS_ = {}
  /\ get_val(variables, <<"budeulbudeul">>) = [err |-> ErrNone, val |-> 0]
  /\ get_val(variables, <<"ppyojokppyojok">>) = [err |-> ErrNone, val |-> -1]
  /\ get_val(variables, <<"poksinpoksin">>) = [err |-> ErrNone, val |-> 1]
  /\ (Stepped /\ LastWriteTargets \cap DOMAIN CONSTANTS_ # {}) => err = ErrConstant

\* C10 witness: an add whose first subject is a constant has failed.
C10_Witness ==
  /\ Stepped
  /\ LastCmd = <<"joryeo">>
  /\ LastSubjects # <<>>
  /\ LastSubjects[1] \in DOMAIN CONSTANTS_
  /\ err = ErrConstant

\* the second call of run on the same evaluator has ended
SecondCallEnded == calls = 2 /\ phase \in {"done", "error"}

\* C11: every execution starts from an empty variable store, so two calls of
\* run with the same instructions and labels on the same evaluator produce the
\* same output, the same final variable store and the same error outcome.
C11_RepeatedRunsIdentical ==
  SecondCallEnded
    => (out = first.out /\ variables = first.variables /\ err = first.err)

\* the last instruction is a print all of whose subjects were defined
LastIsDefinedPrint ==
  Stepped /\ LastCmd = <<"eul">> /\ AllDefinedBefore(LastSubjects)

\* C12: print never aborts the run because of the value printed: for every
\* defined subject and every integer it holds, print emits the character with
\* that code point or the placeholder, leaves the store unchanged, and execution
\* continues with the next subject and then the next instruction.
C12_PrintNeverAborts ==
  LastIsDefinedPrint
  => /\ ~Failed
     /\ variables = prev.variables
     /\ pc = prev.pc + 1
     /\ Len(out) = Len(prev.out) + Len(LastSubjects)
     /\ \A k \in 1..Len(LastSubjects) :
          out[Len(prev.out) + k]
            \in {ValueOf(prev.variables, LastSubjects[k]), Placeholder}

----------------------------------------------------------------------------
(* The lexer's groups against the lines they come from *)

\* tokenize has returned
Tokenized == phase \notin {"source", "syntax_error"}

\* the concatenation of a sequence of sequences
RECURSIVE Flat(_)
Flat(ss) == IF ss = <<>> THEN <<>> ELSE Head(ss) \o Flat(Tail(ss))

\* the number of elements of Flat(ss) that come before those of ss[k]
RECURSIVE Offset(_, _)
Offset(ss, k) == IF k <= 1 THEN 0 ELSE Offset(ss, k - 1) + Len(ss[k - 1])

\* the index k of the ss[k] that holds element p of Flat(ss)
Holder(ss, p) ==
  CHOOSE k \in 1..Len(ss) : Offset(ss, k) < p /\ p <= Offset(ss, k) + Len(ss[k])

\* the lines the tokenizer loops over, each as the list of its tokens
RECURSIVE SplitEach(_)
SplitEach(lines) ==
  IF lines = <<>> THEN <<>> ELSE <<Split(Head(lines))>> \o SplitEach(Tail(lines))

LineTokens == SplitEach(start_lines(clean_code(source)))

\* all tokens of the program in source order
AllTokens == Flat(LineTokens)

IsSuffix(token) == token \in SUFFIX_KEYWORDS
IsOrdinary(token) == token \notin SUFFIX_KEYWORDS /\ token # PREFIX_KEYWORD

\* token p is followed on its line by a suffix keyword
BeforeSuffix(p) ==
  /\ p < Len(AllTokens)
  /\ Holder(LineTokens, p + 1) = Holder(LineTokens, p)
  /\ IsSuffix(AllTokens[p + 1])

\* token p is the last token of the group that holds it
LastOfGroup(p) ==
  LET g == Holder(groups, p) IN p = Offset(groups, g) + Len(groups[g])

\* C13: on every line each suffix keyword is the last token of its group, each
\* ordinary token immediately followed by a suffix keyword is in the group of
\* that suffix keyword, and no group that begins with the prefix keyword holds
\* a suffix keyword or the ordinary token that immediately precedes one.
C13_PrefixCommandClosedBeforeSuffix ==
  Tokenized =>
    /\ Flat(groups) = AllTokens
    /\ \A p \in 1..Len(AllTokens) :
         /\ IsSuffix(AllTokens[p]) => LastOfGroup(p)
         /\ (IsOrdinary(AllTokens[p]) /\ BeforeSuffix(p))
              => Holder(groups, p) = Holder(groups, p + 1)
         /\ groups[Holder(groups, p)][1] = PREFIX_KEYWORD
              => /\ ~IsSuffix(AllTokens[p])
                 /\ ~(IsOrdinary(AllTokens[p]) /\ BeforeSuffix(p))

----------------------------------------------------------------------------
(* The parser's instructions and labels against the groups *)

\* parse has returned
Parsed == phase \in {"run", "done", "error"}

IsLabelGroup(g) == g # <<>> /\ g[1] # <<>> /\ SubSeq(g[1], 1, 1) = LABEL_KEYWORD
IsInstructionGroup(g) == g # <<>> /\ ~IsLabelGroup(g)

\* the number of instruction groups among the first k groups
InstructionsIn(k) == Cardinality({j \in 1..k : IsInstructionGroup(groups[j])})

\* the name a label group defines: its first token without the label keyword
LabelNameOf(g) == Strip(Remove(g[1], LABEL_KEYWORD))

\* the positions of the groups that define the label name
DefinitionsOf(name) ==
  {k \in 1..Len(groups) : IsLabelGroup(groups[k]) /\ LabelNameOf(groups[k]) = name}

Greatest(S) == CHOOSE i \in S : \A j \in S : j <= i

\* C14: parse emits one instruction per non-empty group whose first token does
\* not begin with the label keyword, in group order with dense indices from 0,
\* none for a label group, and maps each label name to the number of
\* instructions emitted before its last definition.
C14_ParseInstructionsAndLabels ==
  Parsed =>
    /\ Len(instructions) = InstructionsIn(Len(groups))
    /\ \A k \in 1..Len(groups) :
         IsInstructionGroup(groups[k])
           => /\ instructions[InstructionsIn(k)].tokens = groups[k]
              /\ instructions[InstructionsIn(k)].line = Join(groups[k])
    /\ DOMAIN labels =
         {LabelNameOf(groups[k]) : k \in {j \in 1..Len(groups) : IsLabelGroup(groups[j])}}
    /\ \A name \in DOMAIN labels :
         labels[name] = InstructionsIn(Greatest(DefinitionsOf(name)))

\* a label defined twice, an instruction between the definitions, the second
\* definition last: the label maps to the instruction count
C14_Witness ==
  /\ Parsed
  /\ \E name \in DOMAIN labels :
       \E j, k \in DefinitionsOf(name) :
         /\ InstructionsIn(j) < InstructionsIn(k)
         /\ k = Len(groups)
         /\ labels[name] = Len(instructions)
         /\ labels[name] > 0

----------------------------------------------------------------------------
(* clean_code against the source text *)

\* the positions (1-based) at which kw occurs in text
Positions(text, kw) ==
  {i \in 1..(Len(text) - Len(kw) + 1) : SubSeq(text, i, i + Len(kw) - 1) = kw}

Occurs(text, kw) == Positions(text, kw) # {}

\* the index of the first occurrence
IndexOf(text, kw) ==
  CHOOSE i \in Positions(text, kw) : \A j \in Positions(text, kw) : i <= j

\* the source after quote removal
Unquoted == RemoveQuoted(source)

\* a marker is missing after quote removal, or the start marker's index is at
\* or after the end marker's
MarkersMissingOrMisordered ==
  \/ ~Occurs(Unquoted, START_MARKER)
  \/ ~Occurs(Unquoted, END_MARKER)
  \/ IndexOf(Unquoted, START_MARKER) >= IndexOf(Unquoted, END_MARKER)

\* C15: when, after quote removal, the source lacks the start marker or the
\* end marker, or the start marker's index is at or after the end marker's,
\* clean_code (and so tokenize) fails with the syntax error and no groups and
\* no instructions are produced.
C15_MissingMarkerFails ==
  (phase # "source" /\ MarkersMissingOrMisordered)
    => /\ phase = "syntax_error"
       /\ core_code = <<>>
       /\ groups = <<>>
       /\ instructions = <<>>

\* both markers are in the source, the start marker only in a quoted span
C15_Witness ==
  /\ phase = "syntax_error"
  /\ Occurs(source, START_MARKER)
  /\ Occurs(source, END_MARKER)
  /\ ~Occurs(Unquoted, START_MARKER)
  /\ Occurs(Unquoted, END_MARKER)

QuoteFree(text) == \A i \in 1..Len(text) : text[i] \notin {"\"", "'"}

\* the ways to read text as prologue, start marker, body, end marker,
\* epilogue: the positions of the two markers
Framings(text) ==
  {f \in Positions(text, START_MARKER) \X Positions(text, END_MARKER) :
     f[1] + Len(START_MARKER) <= f[2]}

\* C16: for a quote-free source of the form prologue, start marker, body, end
\* marker, epilogue (the body possibly empty, prologue and epilogue possibly
\* holding marker text) clean_code succeeds and returns exactly the body.
C16_CleanReturnsBody ==
  (phase # "source" /\ QuoteFree(source))
    => \A f \in Framings(source) :
         /\ phase # "syntax_error"
         /\ core_code = SubSeq(source, f[1] + Len(START_MARKER), f[2] - 1)

----------------------------------------------------------------------------
(* The counting loop *)

\* the value the counter is given before the loop
CounterStart == CHOOSE n \in 0..MaxCount : source = LoopProgram(n)

\* the position (1-based) of the body of the loop among the instructions
BodyAt == CHOOSE k \in 1..Len(instructions) : instructions[k].tokens = << <<"c">>, <<"jorinda">> >>

LoopDone ==
  /\ phase = "done"
  /\ pc = Len(instructions)
  /\ err = ErrNone
  /\ executed[BodyAt] = CounterStart
  /\ variables[<<"c">>] = 0

\* C17: a counting loop (a label, an equality jump on the counter to a label
\* after the loop, a body that decrements the counter, a jump back to the
\* first label) run from a counter n >= 0 eventually reaches pc = instruction
\* count, after exactly n executions of the body and with the counter at 0.
C17_CountingLoopTerminates == (phase = "run") ~> LoopDone

\* a loop whose body ran MaxCount times has ended
C17_Witness == LoopDone /\ executed[BodyAt] = MaxCount

----------------------------------------------------------------------------
(* The program counter *)

\* no instruction of the program is a jump
JumpFree ==
  \A k \in 1..Len(instructions) : ~Contains(Cmd(instructions[k].tokens), JUMP_KEYWORD)

\* C18: after a non-jump instruction that does not fail and after a jump that
\* is not taken pc has increased by one; after a taken jump pc is the label's
\* index, not incremented; an iteration runs only while pc is below the
\* instruction count and run returns exactly when pc equals it; a program with
\* no jump and no error executes each instruction once, in index order.
C18_ProgramCounterSequencing ==
  /\ (Stepped /\ ~Failed /\ ~LastIsJump) => pc = prev.pc + 1
  /\ (Stepped /\ ~Failed /\ LastIsJump)
       => \/ pc = prev.pc + 1
          \/ LastTarget \in DOMAIN labels /\ pc = labels[LastTarget]
  /\ Stepped => (0 <= prev.pc /\ prev.pc < Len(instructions))
  /\ phase = "done" => (pc = Len(instructions) /\ ~Failed)
  /\ (phase = "done" /\ JumpFree)
       => \A k \in 1..Len(instructions) : executed[k] = 1

\* an unconditional jump back to an earlier instruction has been taken
C18_Witness ==
  /\ Stepped
  /\ ~Failed
  /\ LastIsJump
  /\ Len(LastTokens) = 1
  /\ pc = labels[LastTarget]
  /\ pc < prev.pc

\* C19: during run 0 <= pc <= len(instructions), every label index is in
\* 0..len(instructions), and the instruction list and the label table stay
\* what parse returned.
C19_ProgramCounterInRange ==
  Parsed =>
    /\ 0 <= pc /\ pc <= Len(instructions)
    /\ \A name \in DOMAIN labels : 0 <= labels[name] /\ labels[name] <= Len(instructions)
    /\ LET parsed == parse(groups)
       IN  instructions = parsed.instructions /\ labels = parsed.labels

\* a jump to a label defined after the last instruction has ended the run
C19_Witness ==
  /\ phase = "done"
  /\ Stepped
  /\ LastIsJump
  /\ LastTarget \in DOMAIN labels
  /\ labels[LastTarget] = Len(instructions)
  /\ pc = Len(instructions)
  /\ prev.pc + 1 < pc

----------------------------------------------------------------------------
(* The groups of tokenize against the tokens of the lines *)

\* C20: tokenize loses and reorders nothing: no group is empty, no group spans
\* two lines, the groups concatenated in order are the whitespace-separated
\* tokens of the non-blank lines in order, and the prefix keyword occurs only
\* as the first token of a group.
C20_TokenizeKeepsTokens ==
  Tokenized =>
    /\ \A g \in 1..Len(groups) : groups[g] # <<>>
    /\ Flat(groups) = AllTokens
    /\ Flat(groups) = Split(core_code)
    /\ \A p \in 1..(Len(AllTokens) - 1) :
         Holder(groups, p) = Holder(groups, p + 1)
           => Holder(LineTokens, p) = Holder(LineTokens, p + 1)
    /\ \A g \in 1..Len(groups) :
         \A k \in 2..Len(groups[g]) : groups[g][k] # PREFIX_KEYWORD

\* two lines; on one of them an unfinished group is closed by the prefix
\* keyword, whose own group is closed before the token of a suffix command
C20_Witness ==
  /\ Tokenized
  /\ Len(LineTokens) = 2
  /\ Len(groups) >= 4
  /\ \E g \in 2..Len(groups) :
       /\ groups[g][1] = PREFIX_KEYWORD
       /\ Holder(LineTokens, Offset(groups, g)) = Holder(LineTokens, Offset(groups, g) + 1)

====
